---- MODULE Spec2Model ----
(***************************************************************************)
(* Particle-life simulator: the per-frame pipeline of LinkedListEngine     *)
(* (head-table reset, Grid Builder dispatch, Force Integrator dispatch,    *)
(* render pass) on a WebGPU device queue, together with the host's frame   *)
(* loop and UI handlers.                                                   *)
(*                                                                         *)
(* f32 values are fixed-point integers with denominator Scale: the f32     *)
(* value v is the integer v * Scale, products and quotients truncate       *)
(* toward zero.  A squared length (distSq, r * r) is kept unscaled, in     *)
(* units of 1 / Scale^2, so the cutoff comparisons are exact.              *)
(***************************************************************************)
EXTENDS Integers, Sequences, FiniteSets, TLC

(***************************************************************************)
(* Bounds of the model.                                                    *)
(***************************************************************************)
\* particles simulated (options.ts sets 50000)
PARTICLE_COUNT == 2
\* threads of one workgroup (the shaders declare 64)
WORKGROUP_SIZE == 3
\* colour types (options.ts sets 200)
COLOUR_COUNT == 2
\* frames the host submits
MaxFrames == 2
\* items the device queue holds before the host's next call waits
MaxQueue == 2
\* UI events (slider changes, clicks on 'Randomise matrix') the user makes
MaxUiEvents == 1

\* fixed-point denominator of an f32
Scale == 100

VARIABLES
    opts,             \* host: SimOptions of main()
    step,             \* host: LinkedListEngine.step, the ping-pong index
    frames,           \* host: frame() calls so far
    uiEvents,         \* host: UI events handled so far
    queue,            \* device queue: writeBuffer calls and command buffers, in order
    cmds,             \* GPU: commands left of the command buffer in execution
    executed,         \* GPU: commands of that command buffer already completed
    pass,             \* GPU: the compute pass whose dispatch is running
    threads,          \* GPU: each invocation's position and private variables
    simBuffer,        \* GPU: the Sim uniform
    matrixBuffer,     \* GPU: the interaction matrix
    colourBuffer,     \* GPU: colour index per particle
    particleBuffers,  \* GPU: the two ping-pong particle buffers
    heads,            \* GPU: head table
    linked,           \* GPU: next index per particle
    presented,        \* GPU: what the last render pass drew
    call,             \* a shader function applied on its own: arguments and result
    log               \* history of the running dispatch: per cell the atomic exchanges
                      \* in the order they took effect, per next slot and per
                      \* output slot its writers

vars == <<opts, step, frames, uiEvents, queue, cmds, executed, pass, threads, simBuffer,
          matrixBuffer, colourBuffer, particleBuffers, heads, linked, presented, call,
          log>>

Particles == 0 .. (PARTICLE_COUNT - 1)

(***************************************************************************)
(* Fixed-point arithmetic.                                                 *)
(***************************************************************************)
Abs(a) == IF a < 0 THEN -a ELSE a

Min(a, b) == IF a < b THEN a ELSE b

Max(a, b) == IF a > b THEN a ELSE b

\* quotient truncated toward zero; a zero divisor (never met by the shaders,
\* whose divisions are guarded) gives 0
TDiv(a, b) ==
    IF b = 0 THEN 0
    ELSE IF (a >= 0) = (b > 0) THEN Abs(a) \div Abs(b)
    ELSE -(Abs(a) \div Abs(b))

FMul(a, b) == TDiv(a * b, Scale)

FDiv(a, b) == TDiv(a * Scale, b)

RECURSIVE SqrtSearch(_, _, _)
SqrtSearch(n, lo, hi) ==
    IF lo >= hi THEN lo
    ELSE LET mid == (lo + hi + 1) \div 2
         IN  IF mid * mid <= n THEN SqrtSearch(n, mid, hi)
             ELSE SqrtSearch(n, lo, mid - 1)

\* sqrt of a squared length: n is in units of 1 / Scale^2, the root in 1 / Scale
FSqrt(n) == SqrtSearch(n, 0, Min(n, 46340))

clamp(v, lo, hi) == Min(Max(v, lo), hi)

(***************************************************************************)
(* options.ts                                                              *)
(***************************************************************************)
defaultOptions ==
    [colours |-> COLOUR_COUNT, r |-> 15 * Scale, force |-> Scale, friction |-> 4,
     beta |-> 30, delta |-> 2, avoidance |-> 4 * Scale, worldSize |-> 6 * Scale,
     border |-> TRUE, vortex |-> FALSE]

\* the Sim record setSim writes: the booleans become 1 / 0
setSim(o) ==
    [colours |-> o.colours, r |-> o.r, force |-> o.force, friction |-> o.friction,
     beta |-> o.beta, delta |-> o.delta, avoidance |-> o.avoidance,
     worldSize |-> o.worldSize,
     border |-> IF o.border THEN 1 ELSE 0,
     vortex |-> IF o.vortex THEN 1 ELSE 0]


\* the parameter settings a burst of slider changes between two submissions
\* leaves in opts
OptChoices ==
    { defaultOptions,
      [defaultOptions EXCEPT !.r = 6 * Scale, !.force = 5 * Scale, !.friction = 0,
                             !.delta = 10, !.avoidance = 20 * Scale],
      [defaultOptions EXCEPT !.r = 6 * Scale, !.force = 5 * Scale, !.friction = 0,
                             !.delta = 10, !.avoidance = 20 * Scale,
                             !.border = FALSE, !.vortex = TRUE] }

(***************************************************************************)
(* main.ts: the data main() uploads before the first frame.                *)
(***************************************************************************)
\* buildMatrix: colourCount^2 coefficients in [-1, 1], row-major
MatrixChoices ==
    { [k \in 0 .. (COLOUR_COUNT * COLOUR_COUNT - 1) |->
          IF k \div COLOUR_COUNT = k % COLOUR_COUNT THEN Scale ELSE 0],
      [k \in 0 .. (COLOUR_COUNT * COLOUR_COUNT - 1) |->
          IF k \div COLOUR_COUNT < k % COLOUR_COUNT THEN Scale
          ELSE IF k \div COLOUR_COUNT > k % COLOUR_COUNT THEN -Scale
          ELSE -(Scale \div 2)] }

\* buildColourIndices: a colour in [0, COLOUR_COUNT) per particle
ColourChoices ==
    { [i \in Particles |-> i % COLOUR_COUNT],
      [i \in Particles |-> 0] }

\* buildParticles: positions in [-worldSize, worldSize], velocity zero
StartPoints ==
    << <<6 * Scale, 6 * Scale>>, <<6 * Scale - 20, 6 * Scale>>, <<0, 0>>,
       <<-6 * Scale, 0>>, <<-6 * Scale + 10, 6 * Scale>> >>

StartLayouts ==
    { f \in [Particles -> 1 .. Len(StartPoints)] :
        \A i \in Particles : \A j \in Particles : i < j => f[i] <= f[j] }

buildParticles(f) ==
    [i \in Particles |->
        [x |-> StartPoints[f[i]][1], y |-> StartPoints[f[i]][2], z |-> 0, w |-> 0]]

(***************************************************************************)
(* linkedList/main.ts                                                      *)
(***************************************************************************)
\* variant: the head table sized for the default radius 15
maxDim_defaultRadius == (6 * 2 + 14) \div 15 + 2

\* createAccelerationBuffers: cells of the head table
maxDim == 6 * 2 * 2 + 2

maxCells == maxDim * maxDim * 4

\* the head table: every entry is `fill` but those of `at`
headsInit == [fill |-> -1, at |-> <<>>]

HeadAt(h, c) == IF c \in DOMAIN h.at THEN h.at[c] ELSE h.fill

constructBindGroups(s) == [particles |-> s]

\* variant: the integrator bound to one buffer for reading and writing
simBindGroups_inPlace(s) == [particles |-> s, output |-> s]

simBindGroups(s) == [particles |-> s, output |-> 1 - s]

\* variant: the quotient rounded down
Workgroups_roundedDown == PARTICLE_COUNT \div WORKGROUP_SIZE

\* threads of one dispatchWorkgroups(Math.ceil(PARTICLE_COUNT / 64))
Workgroups == (PARTICLE_COUNT + WORKGROUP_SIZE - 1) \div WORKGROUP_SIZE

Threads == 0 .. (Workgroups * WORKGROUP_SIZE - 1)

Command(op, pipeline, bg) == [op |-> op, pipeline |-> pipeline, bg |-> bg]

\* variant: the reset recorded after the Grid Builder pass
TickCommands_resetLate(s) ==
    << Command("dispatch", "construct", s),
       Command("copyBufferToBuffer", "none", 0),
       Command("dispatch", "sim", s) >>

\* the commands tick() records, in order
TickCommands(s) ==
    << Command("copyBufferToBuffer", "none", 0),
       Command("dispatch", "construct", s),
       Command("dispatch", "sim", s) >>

currentBufferIndex(st) == 1 - st

(***************************************************************************)
(* linkedList/construct.wgsl                                               *)
(***************************************************************************)
construct_gridDim(sim) == ((sim.worldSize * 2 + sim.r - 1) \div sim.r) + 1

\* variant: the coordinate taken from the position as it is, not clamped
construct_cellCoord_unclamped(v, sim) ==
    LET half == sim.worldSize
    IN  (v + half) \div sim.r

construct_cellCoord(v, sim) ==
    LET half == sim.worldSize
        clamped == clamp(v, -half, half)
    IN  (clamped + half) \div sim.r

\* variant: the flat index transposed
construct_cellIndex_transposed(cx, cy, dim) == cx * dim + cy

construct_cellIndex(cx, cy, dim) == cy * dim + cx

construct_cell(p, sim) ==
    construct_cellIndex(construct_cellCoord(p.x, sim), construct_cellCoord(p.y, sim),
                        construct_gridDim(sim))

(***************************************************************************)
(* linkedList/sim.wgsl                                                     *)
(***************************************************************************)
\* variant: the grid without the cell added to the quotient
sim_gridDim_noExtraCell(sim) == (sim.worldSize * 2 + sim.r - 1) \div sim.r

sim_gridDim(sim) == ((sim.worldSize * 2 + sim.r - 1) \div sim.r) + 1

\* variant: the coordinate taken from the position as it is, not clamped
sim_cellCoord_unclamped(v, sim) == (v + sim.worldSize) \div sim.r

sim_cellCoord(v, sim) ==
    LET half == sim.worldSize
        clamped == clamp(v, -half, half)
    IN  (clamped + half) \div sim.r

sim_cellIndex(cx, cy, dim) == cy * dim + cx

\* variant: the peak of the coeff branch at dist = 1 / 2, not (1 + beta) / 2
forceCurve_peakAtHalf(dist, beta, coeff) ==
    IF dist < beta THEN FDiv(dist, beta) - Scale
    ELSE IF dist < Scale
         THEN FMul(coeff, Scale - FDiv(Abs(2 * dist - Scale), Scale - beta))
         ELSE 0

forceCurve(dist, beta, coeff) ==
    IF dist < beta THEN FDiv(dist, beta) - Scale
    ELSE IF dist < Scale
         THEN FMul(coeff, Scale - FDiv(Abs(2 * dist - Scale - beta), Scale - beta))
         ELSE 0

\* variant: the cell itself and the four cells sharing a side with it
NeighbourOffsets_sides ==
    << <<0, -1>>, <<-1, 0>>, <<0, 0>>, <<1, 0>>, <<0, 1>> >>

\* the 3x3 neighbourhood as <<dx, dy>>, dy in the outer loop
NeighbourOffsets ==
    << <<-1, -1>>, <<0, -1>>, <<1, -1>>,
       <<-1, 0>>,  <<0, 0>>,  <<1, 0>>,
       <<-1, 1>>,  <<0, 1>>,  <<1, 1>> >>

\* while j >= 0 { ...; j = linked[j]; } from j, as the indices met; a walk
\* longer than every acyclic chain is cut after PARTICLE_COUNT + 1 entries
RECURSIVE Walk(_, _, _)
Walk(lk, j, fuel) ==
    IF j < 0 \/ fuel = 0 THEN <<>>
    ELSE <<j>> \o Walk(lk, lk[j], fuel - 1)

\* the neighbour cell of offset k, or -1 when the loop skips it
NeighbourCell(cx, cy, dim, k) ==
    LET nx == cx + NeighbourOffsets[k][1]
        ny == cy + NeighbourOffsets[k][2]
    IN  IF nx < 0 \/ ny < 0 \/ nx >= dim \/ ny >= dim THEN -1
        ELSE sim_cellIndex(nx, ny, dim)

\* every list entry j the two loops reach, in order
RECURSIVE Traverse(_, _, _, _, _, _)
Traverse(hd, lk, cx, cy, dim, k) ==
    IF k > Len(NeighbourOffsets) THEN <<>>
    ELSE LET cell == NeighbourCell(cx, cy, dim, k)
         IN  (IF cell < 0 THEN <<>>
              ELSE Walk(lk, HeadAt(hd, cell), PARTICLE_COUNT + 1))
             \o Traverse(hd, lk, cx, cy, dim, k + 1)

\* shortest-path wrap of one axis of diff
WrapAxis(d, half) ==
    LET d1 == IF d > half THEN d - half * 2 ELSE d
    IN  IF d1 < -half THEN d1 + half * 2 ELSE d1

Displacement(pos, q, sim) ==
    LET dx == q.x - pos[1]
        dy == q.y - pos[2]
    IN  IF sim.border = 1
        THEN <<WrapAxis(dx, sim.worldSize), WrapAxis(dy, sim.worldSize)>>
        ELSE <<dx, dy>>

dot(a, b) == a[1] * b[1] + a[2] * b[2]

\* variant: no self test, and a zero distance accepted
Interacts_noSelfTest(idx, j, distSq, r) == distSq >= 0 /\ distSq < r * r

\* variant: the cutoff inclusive
Interacts_inclusive(idx, j, distSq, r) == j # idx /\ distSq > 0 /\ distSq <= r * r

\* the two guards in front of the accumulation
Interacts(idx, j, distSq, r) == j # idx /\ distSq > 0 /\ distSq < r * r

\* variant: the coefficient of the transposed entry
PairTerm_transposed(myColour, theirColour, diff, sim, matrix) ==
    LET dist == FSqrt(dot(diff, diff))
        normD == FDiv(dist, sim.r)
        dir == <<FDiv(diff[1], dist), FDiv(diff[2], dist)>>
        coeff == matrix[theirColour * sim.colours + myColour]
        f == forceCurve(normD, sim.beta, coeff)
        avoidF == IF dist < sim.avoidance
                  THEN -TDiv(FDiv(sim.avoidance, dist) - Scale, 2)
                  ELSE 0
    IN  <<FMul(dir[1], f + avoidF), FMul(dir[2], f + avoidF)>>

\* dir * (f + avoidF) for an interacting pair
PairTerm(myColour, theirColour, diff, sim, matrix) ==
    LET dist == FSqrt(dot(diff, diff))
        normD == FDiv(dist, sim.r)
        dir == <<FDiv(diff[1], dist), FDiv(diff[2], dist)>>
        coeff == matrix[myColour * sim.colours + theirColour]
        f == forceCurve(normD, sim.beta, coeff)
        avoidF == IF dist < sim.avoidance
                  THEN -TDiv(FDiv(sim.avoidance, dist) - Scale, 2)
                  ELSE 0
    IN  <<FMul(dir[1], f + avoidF), FMul(dir[2], f + avoidF)>>

\* variant: the accumulation ends at the particle's own list entry
RECURSIVE Contributions_endsAtSelf(_, _, _, _, _, _, _)
Contributions_endsAtSelf(idx, pos, visited, src, colours, sim, matrix) ==
    IF visited = <<>> \/ Head(visited) = idx THEN <<>>
    ELSE LET j == Head(visited)
             diff == Displacement(pos, src[j], sim)
         IN  (IF Interacts(idx, j, dot(diff, diff), sim.r)
              THEN << [j |-> j,
                       term |-> PairTerm(colours[idx], colours[j], diff, sim, matrix)] >>
              ELSE <<>>)
             \o Contributions_endsAtSelf(idx, pos, Tail(visited), src, colours, sim,
                                         matrix)

\* the terms added to acc, in order, each with the neighbour it came from
RECURSIVE Contributions(_, _, _, _, _, _, _)
Contributions(idx, pos, visited, src, colours, sim, matrix) ==
    IF visited = <<>> THEN <<>>
    ELSE LET j == Head(visited)
             diff == Displacement(pos, src[j], sim)
         IN  (IF Interacts(idx, j, dot(diff, diff), sim.r)
              THEN << [j |-> j,
                       term |-> PairTerm(colours[idx], colours[j], diff, sim, matrix)] >>
              ELSE <<>>)
             \o Contributions(idx, pos, Tail(visited), src, colours, sim, matrix)

RECURSIVE SumTerms(_)
SumTerms(cs) ==
    IF cs = <<>> THEN <<0, 0>>
    ELSE LET rest == SumTerms(Tail(cs))
         IN  <<Head(cs).term[1] + rest[1], Head(cs).term[2] + rest[2]>>

\* variant: friction as the factor kept, not the factor lost
Integrate_frictionKept(sum, pos, vel, sim) ==
    LET k == FMul(sim.force, sim.r)
        scaled == <<FMul(sum[1], k), FMul(sum[2], k)>>
        acc == IF sim.vortex = 1
               THEN <<scaled[1] + TDiv(-vel[2], 100), scaled[2] + TDiv(vel[1], 100)>>
               ELSE scaled
        v == <<FMul(vel[1], sim.friction) + FMul(acc[1], sim.delta),
               FMul(vel[2], sim.friction) + FMul(acc[2], sim.delta)>>
        p == <<pos[1] + FMul(v[1], sim.delta), pos[2] + FMul(v[2], sim.delta)>>
    IN  <<acc, p, v>>

\* scale, optional vortex, integrate: <<acc, pos, vel>>
Integrate(sum, pos, vel, sim) ==
    LET k == FMul(sim.force, sim.r)
        scaled == <<FMul(sum[1], k), FMul(sum[2], k)>>
        acc == IF sim.vortex = 1
               THEN <<scaled[1] + TDiv(-vel[2], 100), scaled[2] + TDiv(vel[1], 100)>>
               ELSE scaled
        v == <<FMul(vel[1], Scale - sim.friction) + FMul(acc[1], sim.delta),
               FMul(vel[2], Scale - sim.friction) + FMul(acc[2], sim.delta)>>
        p == <<pos[1] + FMul(v[1], sim.delta), pos[2] + FMul(v[2], sim.delta)>>
    IN  <<acc, p, v>>

\* variant: the edge itself wraps
WrapBorder_inclusive(p, v, half) ==
    LET p1 == IF p >= half THEN p - half * 2 ELSE p
        p2 == IF p1 < -half THEN p1 + half * 2 ELSE p1
    IN  <<p2, v>>

\* border handling of one axis: <<position, velocity>>
WrapBorder(p, v, half) ==
    LET p1 == IF p > half THEN p - half * 2 ELSE p
        p2 == IF p1 < -half THEN p1 + half * 2 ELSE p1
    IN  <<p2, v>>

\* variant: the sign of the other wall at the right wall
ReflectBorder_wrongSign(p, v, half) ==
    LET a == IF p > half THEN <<half, Abs(v)>> ELSE <<p, v>>
    IN  IF a[1] < -half THEN <<-half, Abs(a[2])>> ELSE a

\* variant: the velocity negated, whatever its sign
ReflectBorder_negates(p, v, half) ==
    LET a == IF p > half THEN <<half, -v>> ELSE <<p, v>>
    IN  IF a[1] < -half THEN <<-half, -a[2]>> ELSE a

ReflectBorder(p, v, half) ==
    LET a == IF p > half THEN <<half, -Abs(v)>> ELSE <<p, v>>
    IN  IF a[1] < -half THEN <<-half, Abs(a[2])>> ELSE a

Border(p, v, sim) ==
    IF sim.border = 1 THEN WrapBorder(p, v, sim.worldSize)
    ELSE ReflectBorder(p, v, sim.worldSize)

(***************************************************************************)
(* State after main() has created the buffers, uploaded the initial data   *)
(* and constructed the engine.  The head table and the next array are      *)
(* created without data, so they hold zeros.                               *)
(***************************************************************************)
IdleThread ==
    [pc |-> "idle", prev |-> -1, visited |-> <<>>, contrib |-> <<>>,
     acc |-> <<0, 0>>, pos |-> <<0, 0>>, vel |-> <<0, 0>>]

NoPass == [kind |-> "none", bg |-> 0]

NoLog ==
    [exchanges |-> <<>>, stores |-> [k \in Particles |-> <<>>],
     outputs |-> [k \in Particles |-> <<>>]]

\* the exchanges on a cell so far, oldest first
ExchangesOn(lg, c) == IF c \in DOMAIN lg.exchanges THEN lg.exchanges[c] ELSE <<>>

NoCall == [fn |-> "none", args |-> <<>>, result |-> <<>>, pc |-> "idle"]

\* main(): buffers created and filled, engine constructed, no frame yet
Constructed ==
    /\ opts = defaultOptions
    /\ step = 0
    /\ frames = 0
    /\ uiEvents = 0
    /\ queue = <<>>
    /\ cmds = <<>>
    /\ executed = <<>>
    /\ pass = NoPass
    /\ threads = [t \in Threads |-> IdleThread]
    /\ simBuffer = setSim(defaultOptions)
    /\ matrixBuffer \in MatrixChoices
    /\ colourBuffer \in ColourChoices
    /\ \E f \in StartLayouts :
           particleBuffers = [b \in 0 .. 1 |-> buildParticles(f)]
    /\ heads = [fill |-> 0, at |-> <<>>]
    /\ linked = [i \in Particles |-> 0]
    /\ presented = [buffer |-> -1, particles |-> <<>>]

Init == Constructed /\ call = NoCall /\ log = NoLog

(***************************************************************************)
(* Host (main.ts): each handler runs to completion on the event loop.      *)
(***************************************************************************)
\* LinkedListEngine.tick: the commands recorded and the new ping-pong index
\* variant: the ping-pong index left as it is
tick_keepsStep(s) == [commands |-> TickCommands(s), step |-> s]

tick(s) == [commands |-> TickCommands(s), step |-> 1 - s]

\* frame(): tick, render pass on renderBindGroups[currentBufferIndex], submit
Frame ==
    /\ frames < MaxFrames
    /\ Len(queue) < MaxQueue
    /\ LET tk == tick(step)
           currentBuf == currentBufferIndex(tk.step)
       IN  /\ step' = tk.step
           /\ queue' = Append(queue,
                  [type |-> "submit",
                   data |-> Append(tk.commands, Command("draw", "render", currentBuf))])
    /\ frames' = frames + 1
    /\ UNCHANGED <<call, log, opts, uiEvents, cmds, executed, pass, threads, simBuffer, matrixBuffer,
                   colourBuffer, particleBuffers, heads, linked, presented>>

\* variant: the handler stores into the uniform at once, not through the queue
SimChange_direct(o) ==
    /\ o # opts
    /\ uiEvents < MaxUiEvents
    /\ uiEvents' = uiEvents + 1
    /\ opts' = o
    /\ simBuffer' = setSim(o)
    /\ UNCHANGED <<call, log, step, frames, queue, cmds, executed, pass, threads,
                   matrixBuffer, colourBuffer, particleBuffers, heads, linked,
                   presented>>

\* simFolder.on("change"): setSim(device, simBuffer, opts)
SimChange(o) ==
    /\ o # opts
    /\ uiEvents < MaxUiEvents
    /\ Len(queue) < MaxQueue
    /\ uiEvents' = uiEvents + 1
    /\ opts' = o
    /\ queue' = Append(queue, [type |-> "sim", data |-> setSim(o)])
    /\ UNCHANGED <<call, log, step, frames, cmds, executed, pass, threads, simBuffer,
                   matrixBuffer, colourBuffer, particleBuffers, heads, linked,
                   presented>>

\* btnRandomise.on("click"): writeBuffer(matrixBuffer, 0, buildMatrix())
RandomiseMatrix(m) ==
    /\ uiEvents < MaxUiEvents
    /\ Len(queue) < MaxQueue
    /\ uiEvents' = uiEvents + 1
    /\ queue' = Append(queue, [type |-> "matrix", data |-> m])
    /\ UNCHANGED <<call, log, opts, step, frames, cmds, executed, pass, threads, simBuffer,
                   matrixBuffer, colourBuffer, particleBuffers, heads, linked,
                   presented>>

(***************************************************************************)
(* Device queue: items take effect in the order they were enqueued; the    *)
(* commands of a command buffer run in order, a dispatch ends when each    *)
(* of its invocations has.                                                 *)
(***************************************************************************)
GpuIdle == cmds = <<>> /\ pass.kind = "none"

ExecWriteBuffer ==
    /\ GpuIdle
    /\ queue # <<>>
    /\ Head(queue).type \in {"sim", "matrix"}
    /\ queue' = Tail(queue)
    /\ IF Head(queue).type = "sim"
       THEN simBuffer' = Head(queue).data /\ UNCHANGED matrixBuffer
       ELSE matrixBuffer' = Head(queue).data /\ UNCHANGED simBuffer
    /\ UNCHANGED <<call, log, opts, step, frames, uiEvents, cmds, executed, pass, threads,
                   colourBuffer, particleBuffers, heads, linked, presented>>

BeginCommandBuffer ==
    /\ GpuIdle
    /\ queue # <<>>
    /\ Head(queue).type = "submit"
    /\ queue' = Tail(queue)
    /\ cmds' = Head(queue).data
    /\ executed' = <<>>
    /\ UNCHANGED <<call, log, opts, step, frames, uiEvents, pass, threads, simBuffer, matrixBuffer,
                   colourBuffer, particleBuffers, heads, linked, presented>>

\* copyBufferToBuffer(headsInitBuffer, 0, headsBuffer, 0, headsInitBuffer.size)
CopyBufferToBuffer ==
    /\ pass.kind = "none"
    /\ cmds # <<>>
    /\ Head(cmds).op = "copyBufferToBuffer"
    /\ heads' = headsInit
    /\ cmds' = Tail(cmds)
    /\ executed' = Append(executed, Head(cmds))
    /\ UNCHANGED <<call, log, opts, step, frames, uiEvents, queue, pass, threads, simBuffer,
                   matrixBuffer, colourBuffer, particleBuffers, linked, presented>>

BeginDispatch ==
    /\ pass.kind = "none"
    /\ cmds # <<>>
    /\ Head(cmds).op = "dispatch"
    /\ pass' = [kind |-> Head(cmds).pipeline, bg |-> Head(cmds).bg]
    /\ threads' = [t \in Threads |-> [IdleThread EXCEPT !.pc = "start"]]
    /\ log' = NoLog
    /\ UNCHANGED <<call, opts, step, frames, uiEvents, queue, cmds, executed, simBuffer,
                   matrixBuffer, colourBuffer, particleBuffers, heads, linked,
                   presented>>

EndDispatch ==
    /\ pass.kind # "none"
    /\ \A t \in Threads : threads[t].pc = "done"
    /\ pass' = NoPass
    /\ cmds' = Tail(cmds)
    /\ executed' = Append(executed, Head(cmds))
    /\ UNCHANGED <<call, log, opts, step, frames, uiEvents, queue, threads, simBuffer, matrixBuffer,
                   colourBuffer, particleBuffers, heads, linked, presented>>

\* the render pass: draw(6, PARTICLE_COUNT) from the bound particle buffer
Draw ==
    /\ pass.kind = "none"
    /\ cmds # <<>>
    /\ Head(cmds).op = "draw"
    /\ presented' = [buffer |-> Head(cmds).bg,
                     particles |-> particleBuffers[Head(cmds).bg]]
    /\ cmds' = Tail(cmds)
    /\ executed' = Append(executed, Head(cmds))
    /\ UNCHANGED <<call, log, opts, step, frames, uiEvents, queue, pass, threads, simBuffer,
                   matrixBuffer, colourBuffer, particleBuffers, heads, linked>>

(***************************************************************************)
(* Invocations of the two compute shaders.                                 *)
(***************************************************************************)
\* if idx >= count { return; }   (both shaders)
ThreadReturn(t) ==
    /\ pass.kind # "none"
    /\ threads[t].pc = "start"
    /\ t >= PARTICLE_COUNT
    /\ threads' = [threads EXCEPT ![t].pc = "done"]
    /\ UNCHANGED <<call, log, opts, step, frames, uiEvents, queue, cmds, executed, pass, simBuffer,
                   matrixBuffer, colourBuffer, particleBuffers, heads, linked,
                   presented>>

\* variant: the head read and the head write as two steps, not one exchange
ConstructExchange_loadThenStore(t) ==
    /\ pass.kind = "construct"
    /\ t < PARTICLE_COUNT
    /\ LET p == particleBuffers[constructBindGroups(pass.bg).particles][t]
           cell == construct_cell(p, simBuffer)
       IN  \/ /\ threads[t].pc = "start"
              /\ threads' = [threads EXCEPT ![t].pc = "loaded",
                                            ![t].prev = HeadAt(heads, cell)]
              /\ UNCHANGED <<heads, log>>
           \/ /\ threads[t].pc = "loaded"
              /\ threads' = [threads EXCEPT ![t].pc = "exchanged"]
              /\ heads' = [heads EXCEPT !.at = (cell :> t) @@ heads.at]
              /\ log' = [log EXCEPT !.exchanges =
                             (cell :> Append(ExchangesOn(log, cell), t)) @@ @]
    /\ UNCHANGED <<call, opts, step, frames, uiEvents, queue, cmds, executed, pass,
                   simBuffer, matrixBuffer, colourBuffer, particleBuffers, linked,
                   presented>>

\* construct.wgsl main, up to and including atomicExchange(&heads[cell], idx)
ConstructExchange(t) ==
    /\ pass.kind = "construct"
    /\ threads[t].pc = "start"
    /\ t < PARTICLE_COUNT
    /\ LET p == particleBuffers[constructBindGroups(pass.bg).particles][t]
           cell == construct_cell(p, simBuffer)
       IN  /\ threads' = [threads EXCEPT ![t].pc = "exchanged",
                                         ![t].prev = HeadAt(heads, cell)]
           /\ heads' = [heads EXCEPT !.at = (cell :> t) @@ heads.at]
           /\ log' = [log EXCEPT !.exchanges =
                             (cell :> Append(ExchangesOn(log, cell), t)) @@ @]
    /\ UNCHANGED <<call, opts, step, frames, uiEvents, queue, cmds, executed, pass, simBuffer,
                   matrixBuffer, colourBuffer, particleBuffers, linked, presented>>

\* variant: the store takes the head as it is now, not the exchanged value
ConstructStore_rereadsHead(t) ==
    /\ pass.kind = "construct"
    /\ threads[t].pc = "exchanged"
    /\ LET p == particleBuffers[constructBindGroups(pass.bg).particles][t]
       IN  linked' = [linked EXCEPT ![t] = HeadAt(heads, construct_cell(p, simBuffer))]
    /\ log' = [log EXCEPT !.stores[t] = Append(@, t)]
    /\ threads' = [threads EXCEPT ![t].pc = "done"]
    /\ UNCHANGED <<call, opts, step, frames, uiEvents, queue, cmds, executed, pass,
                   simBuffer, matrixBuffer, colourBuffer, particleBuffers, heads,
                   presented>>

\* variant: the store links the previous head forward to this particle
ConstructStore_forward(t) ==
    /\ pass.kind = "construct"
    /\ threads[t].pc = "exchanged"
    /\ IF threads[t].prev >= 0
       THEN /\ linked' = [linked EXCEPT ![threads[t].prev] = t]
            /\ log' = [log EXCEPT !.stores[threads[t].prev] = Append(@, t)]
       ELSE /\ linked' = [linked EXCEPT ![t] = -1]
            /\ log' = [log EXCEPT !.stores[t] = Append(@, t)]
    /\ threads' = [threads EXCEPT ![t].pc = "done"]
    /\ UNCHANGED <<call, opts, step, frames, uiEvents, queue, cmds, executed, pass,
                   simBuffer, matrixBuffer, colourBuffer, particleBuffers, heads,
                   presented>>

\* variant: the first particle of a cell leaves its next as it finds it
ConstructStore_skipsSentinel(t) ==
    /\ pass.kind = "construct"
    /\ threads[t].pc = "exchanged"
    /\ IF threads[t].prev >= 0
       THEN /\ linked' = [linked EXCEPT ![t] = threads[t].prev]
            /\ log' = [log EXCEPT !.stores[t] = Append(@, t)]
       ELSE UNCHANGED <<linked, log>>
    /\ threads' = [threads EXCEPT ![t].pc = "done"]
    /\ UNCHANGED <<call, opts, step, frames, uiEvents, queue, cmds, executed, pass,
                   simBuffer, matrixBuffer, colourBuffer, particleBuffers, heads,
                   presented>>

\* atomicStore(&linked[idx].next, prev)
ConstructStore(t) ==
    /\ pass.kind = "construct"
    /\ threads[t].pc = "exchanged"
    /\ linked' = [linked EXCEPT ![t] = threads[t].prev]
    /\ log' = [log EXCEPT !.stores[t] = Append(@, t)]
    /\ threads' = [threads EXCEPT ![t].pc = "done"]
    /\ UNCHANGED <<call, opts, step, frames, uiEvents, queue, cmds, executed, pass, simBuffer,
                   matrixBuffer, colourBuffer, particleBuffers, heads, presented>>

\* sim.wgsl main, from the loads to the integration
SimAccumulate(t) ==
    /\ pass.kind = "sim"
    /\ threads[t].pc = "start"
    /\ t < PARTICLE_COUNT
    /\ LET sim == simBuffer
           src == particleBuffers[simBindGroups(pass.bg).particles]
           pos == <<src[t].x, src[t].y>>
           vel == <<src[t].z, src[t].w>>
           dim == sim_gridDim(sim)
           cx == sim_cellCoord(pos[1], sim)
           cy == sim_cellCoord(pos[2], sim)
           visited == Traverse(heads, linked, cx, cy, dim, 1)
           contrib == Contributions(t, pos, visited, src, colourBuffer, sim,
                                    matrixBuffer)
           res == Integrate(SumTerms(contrib), pos, vel, sim)
       IN  threads' = [threads EXCEPT ![t] =
               [pc |-> "integrated", prev |-> -1, visited |-> visited,
                contrib |-> contrib, acc |-> res[1], pos |-> res[2],
                vel |-> res[3]]]
    /\ UNCHANGED <<call, log, opts, step, frames, uiEvents, queue, cmds, executed, pass, simBuffer,
                   matrixBuffer, colourBuffer, particleBuffers, heads, linked,
                   presented>>

\* border handling and output[idx].pos = vec4(pos, vel)
SimWrite(t) ==
    /\ pass.kind = "sim"
    /\ threads[t].pc = "integrated"
    /\ LET sim == simBuffer
           out == simBindGroups(pass.bg).output
           bx == Border(threads[t].pos[1], threads[t].vel[1], sim)
           by == Border(threads[t].pos[2], threads[t].vel[2], sim)
       IN  particleBuffers' = [particleBuffers EXCEPT ![out][t] =
               [x |-> bx[1], y |-> by[1], z |-> bx[2], w |-> by[2]]]
    /\ log' = [log EXCEPT !.outputs[t] = Append(@, t)]
    /\ threads' = [threads EXCEPT ![t].pc = "done"]
    /\ UNCHANGED <<call, opts, step, frames, uiEvents, queue, cmds, executed, pass, simBuffer,
                   matrixBuffer, colourBuffer, heads, linked, presented>>

Next ==
    \/ Frame
    \/ \E o \in OptChoices : SimChange(o)
    \/ \E m \in MatrixChoices : RandomiseMatrix(m)
    \/ ExecWriteBuffer
    \/ BeginCommandBuffer
    \/ CopyBufferToBuffer
    \/ BeginDispatch
    \/ EndDispatch
    \/ Draw
    \/ \E t \in Threads : ThreadReturn(t)
    \/ \E t \in Threads : ConstructExchange(t)
    \/ \E t \in Threads : ConstructStore(t)
    \/ \E t \in Threads : SimAccumulate(t)
    \/ \E t \in Threads : SimWrite(t)

Spec == Init /\ [][Next]_vars

(***************************************************************************)
(* The shader functions applied on their own: one call, its arguments      *)
(* drawn from the values an f32 argument can take on the fixed-point grid. *)
(***************************************************************************)
Call(fn, args) == [fn |-> fn, args |-> args, result |-> <<>>, pc |-> "called"]

\* coefficients of the matrix: buildMatrix draws them from [-1, 1]
Coeffs == {-Scale, -(Scale \div 2), -1, 0, 37, Scale}

\* forceCurve(dist, beta, coeff) with beta in (0, 1) and dist at 0, at beta, at
\* the peak (1 + beta) / 2 where the grid holds it, and at 1
forceCurveCalls ==
    UNION {{Call("forceCurve", <<d, b, c>>) :
               d \in {0, b, Scale}
                      \cup (IF (Scale + b) % 2 = 0 THEN {(Scale + b) \div 2} ELSE {}),
               c \in Coeffs} :
           b \in 1 .. (Scale - 1)}

\* radius and world half size, from one grid step up, and a coordinate inside,
\* on the edge of and outside the world, on a cell border and beside it
CellRadii ==
    {1, 7, Scale, Scale + 1, 2 * Scale - 1, 4 * Scale, 6 * Scale, 15 * Scale,
     50 * Scale}

CellHalfSizes == {1, 6 * Scale, 10 * Scale}

CellCoords(r, half) ==
    {-3 * half, -half - 1, -half, -half + 1, 0, r - 1, r, half - 1, half, half + 1,
     3 * half}

cellCalls ==
    UNION {{Call("cell", <<x, y, r, half>>) :
               x \in CellCoords(r, half), y \in CellCoords(r, half)} :
           <<r, half>> \in CellRadii \X CellHalfSizes}

Calls == forceCurveCalls \cup cellCalls

FunctionInit ==
    /\ Constructed
    /\ matrixBuffer = [k \in 0 .. (COLOUR_COUNT * COLOUR_COUNT - 1) |->
                          IF k \div COLOUR_COUNT = k % COLOUR_COUNT THEN Scale ELSE 0]
    /\ colourBuffer = [i \in Particles |-> 0]
    /\ particleBuffers = [b \in 0 .. 1 |-> buildParticles([i \in Particles |-> 1])]
    /\ call \in Calls
    /\ log = NoLog

HostAndGpu ==
    <<opts, step, frames, uiEvents, queue, cmds, executed, pass, threads, simBuffer,
      matrixBuffer, colourBuffer, particleBuffers, heads, linked, presented, log>>

Apply_forceCurve ==
    /\ call.fn = "forceCurve"
    /\ call.pc = "called"
    /\ call' = [call EXCEPT !.pc = "returned",
                            !.result = forceCurve(call.args[1], call.args[2],
                                                  call.args[3])]
    /\ UNCHANGED HostAndGpu

\* the Sim uniform with the radius and world half size of a call
SimOf(r, half) == [setSim(defaultOptions) EXCEPT !.r = r, !.worldSize = half]

\* construct.wgsl main: dim, cx, cy, cell;  sim.wgsl main: dim, cx, cy and the
\* head entry read for each of the nine offsets (-1: none read)
Apply_cell ==
    /\ call.fn = "cell"
    /\ call.pc = "called"
    /\ LET sim == SimOf(call.args[3], call.args[4])
           p == [x |-> call.args[1], y |-> call.args[2], z |-> 0, w |-> 0]
           dim == sim_gridDim(sim)
           cx == sim_cellCoord(p.x, sim)
           cy == sim_cellCoord(p.y, sim)
       IN  call' = [call EXCEPT
               !.pc = "returned",
               !.result = [dim |-> construct_gridDim(sim),
                           cx |-> construct_cellCoord(p.x, sim),
                           cy |-> construct_cellCoord(p.y, sim),
                           cell |-> construct_cell(p, sim),
                           simDim |-> dim, simCx |-> cx, simCy |-> cy,
                           reads |-> [k \in 1 .. Len(NeighbourOffsets) |->
                                         NeighbourCell(cx, cy, dim, k)]]]
    /\ UNCHANGED HostAndGpu

FunctionNext ==
    \/ Apply_forceCurve
    \/ Apply_cell

FunctionSpec == FunctionInit /\ [][FunctionNext]_vars

(***************************************************************************)
(* One tick from a later frame: the sliders have been moved, earlier       *)
(* ticks have left particles anywhere (a wrap step moves a coordinate by   *)
(* one world width only) with any velocity, and frame() has submitted its  *)
(* command buffer.                                                         *)
(***************************************************************************)
\* slider settings: each within the range of its binding
TickOpts ==
    { [defaultOptions EXCEPT !.friction = 0, !.avoidance = 0, !.border = FALSE],
      [defaultOptions EXCEPT !.r = 4 * Scale, !.border = FALSE, !.vortex = TRUE],
      [defaultOptions EXCEPT !.r = 4 * Scale, !.avoidance = 0] }

\* the matrix and the colours uploaded: same-colour attraction among particles
\* of one colour, or an asymmetric matrix among particles of several colours
TickUploads ==
    { [matrix |-> [k \in 0 .. (COLOUR_COUNT * COLOUR_COUNT - 1) |->
                      IF k \div COLOUR_COUNT = k % COLOUR_COUNT THEN Scale ELSE 0],
       colours |-> [i \in Particles |-> 0]],
      [matrix |-> [k \in 0 .. (COLOUR_COUNT * COLOUR_COUNT - 1) |->
                      IF k \div COLOUR_COUNT < k % COLOUR_COUNT THEN Scale
                      ELSE IF k \div COLOUR_COUNT > k % COLOUR_COUNT THEN -Scale
                      ELSE -(Scale \div 2)],
       colours |-> [i \in Particles |-> i % COLOUR_COUNT]] }

\* particle records <<x, y, vx, vy>> an earlier tick wrote
TickPoints ==
    << <<6 * Scale, 0, 5 * Scale, 0>>,
       <<6 * Scale - 20, 6 * Scale, 0, 0>>,
       <<Scale + 50, 0, 3 * Scale, -2 * Scale>>,
       <<-6 * Scale, 0, 0, 0>>,
       <<-6 * Scale + 10, 6 * Scale, -Scale, 40 * Scale>>,
       <<7 * Scale, -19 * Scale, -Scale, 0>>,
       <<6 * Scale, 6 * Scale - 50, 0, 0>> >>

TickLayouts ==
    { f \in [Particles -> 1 .. Len(TickPoints)] :
        \A i \in Particles : \A j \in Particles : i < j => f[i] <= f[j] }

TickParticles(f) ==
    [i \in Particles |->
        [x |-> TickPoints[f[i]][1], y |-> TickPoints[f[i]][2],
         z |-> TickPoints[f[i]][3], w |-> TickPoints[f[i]][4]]]

TickInit ==
    /\ opts \in TickOpts
    /\ simBuffer = setSim(opts)
    /\ step = 1
    /\ frames = 1
    /\ uiEvents = 0
    /\ queue = << [type |-> "submit",
                   data |-> Append(tick(0).commands,
                                   Command("draw", "render",
                                           currentBufferIndex(tick(0).step)))] >>
    /\ cmds = <<>>
    /\ executed = <<>>
    /\ pass = NoPass
    /\ threads = [t \in Threads |-> IdleThread]
    /\ \E u \in TickUploads : matrixBuffer = u.matrix /\ colourBuffer = u.colours
    /\ \E f \in TickLayouts :
           particleBuffers = [b \in 0 .. 1 |-> TickParticles(f)]
    /\ heads = [fill |-> 0, at |-> <<>>]
    /\ linked = [i \in Particles |-> 0]
    /\ presented = [buffer |-> -1, particles |-> <<>>]
    /\ call = NoCall
    /\ log = NoLog

TickNext ==
    \/ BeginCommandBuffer
    \/ CopyBufferToBuffer
    \/ BeginDispatch
    \/ EndDispatch
    \/ Draw
    \/ \E t \in Threads : ThreadReturn(t)
    \/ \E t \in Threads : ConstructExchange(t)
    \/ \E t \in Threads : ConstructStore(t)
    \/ \E t \in Threads : SimAccumulate(t)
    \/ \E t \in Threads : SimWrite(t)

TickSpec == TickInit /\ [][TickNext]_vars

(***************************************************************************)
(* Vocabulary of the properties.                                           *)
(***************************************************************************)
Executing == ~GpuIdle

\* the commands of the running command buffer that completed, by pipeline
Completed(pipeline) == {k \in 1 .. Len(executed) : executed[k].pipeline = pipeline}

\* the Grid Builder dispatch of the tick in execution has completed
GridBuilt == Executing /\ Completed("construct") # {}

\* the bind-group index of the tick in execution
TickBg == executed[CHOOSE k \in Completed("construct") : TRUE].bg

\* head[cell] -> next -> ... -> sentinel
Chain(cell) == Walk(linked, HeadAt(heads, cell), PARTICLE_COUNT + 1)

\* the places <<cell, k>> at which particle p is listed
Places(p) ==
    {ck \in UNION {{<<c, k>> : k \in 1 .. Len(Chain(c))} : c \in DOMAIN heads.at} :
        Chain(ck[1])[ck[2]] = p}

\* the buffer the running sim dispatch reads and the one it writes
SimSource == particleBuffers[simBindGroups(pass.bg).particles]

SimOutput == particleBuffers[simBindGroups(pass.bg).output]

Range(s) == {s[k] : k \in 1 .. Len(s)}

(***************************************************************************)
(* C1  Grid completeness: once the Grid Builder dispatch of a tick has     *)
(* completed, whatever the interleaving of the exchanges and next stores,  *)
(* every cell without a written head is empty and every particle index is  *)
(* listed at exactly one place of exactly one chain.                       *)
(***************************************************************************)
GridComplete ==
    GridBuilt =>
        /\ heads.fill = -1
        /\ \A c \in DOMAIN heads.at : Range(Chain(c)) \subseteq Particles
        /\ \A p \in Particles : Cardinality(Places(p)) = 1

\* two particles share a chain in the second tick, built over the links the
\* first tick left in the next array
GridCompleteWitness ==
    /\ GridBuilt
    /\ frames = 2
    /\ queue = <<>>
    /\ \E c \in DOMAIN heads.at : Len(Chain(c)) >= 2

(***************************************************************************)
(* C2  After a tick, the render pass of the same frame draws the buffer    *)
(* the Force Integrator of that tick wrote.                                *)
(***************************************************************************)
RenderDrawsIntegratedState ==
    \A d \in Completed("render") : \A s \in Completed("sim") :
        executed[d].bg = simBindGroups(executed[s].bg).output

(***************************************************************************)
(* C3  A step taken while the Force Integrator dispatch runs leaves the    *)
(* source particle buffer, the colour array, the matrix, the head table    *)
(* and the next array unchanged, and changes the output buffer (another    *)
(* buffer than the source) at slot idx of the writing invocation only.     *)
(***************************************************************************)
IntegratorWritesOwnSlot ==
    (pass.kind = "sim") =>
        LET bg == simBindGroups(pass.bg)
        IN  /\ bg.particles # bg.output
            /\ particleBuffers'[bg.particles] = particleBuffers[bg.particles]
            /\ colourBuffer' = colourBuffer
            /\ matrixBuffer' = matrixBuffer
            /\ heads' = heads
            /\ linked' = linked
            /\ \A i \in Particles :
                   particleBuffers'[bg.output][i] # particleBuffers[bg.output][i]
                       => threads[i].pc = "integrated" /\ threads'[i].pc = "done"

IntegratorIsolation == [][IntegratorWritesOwnSlot]_vars

\* one invocation has written a record that differs from the source record
\* while another has not read its neighbours yet
IntegratorIsolationWitness ==
    /\ pass.kind = "sim"
    /\ \E i \in Particles : \E j \in Particles :
           /\ threads[i].pc = "done"
           /\ SimOutput[i] # SimSource[i]
           /\ threads[j].pc = "start"
           /\ i \in Range(Chain(construct_cell(SimSource[j], simBuffer)))

(***************************************************************************)
(* C4  Stage order of a tick: while Grid Builder invocations run, the      *)
(* reset is the command completed last and every written head belongs to   *)
(* an invocation of this dispatch; while Force Integrator invocations      *)
(* run, the reset and then the Grid Builder dispatch of the same bind      *)
(* group have completed.                                                   *)
(***************************************************************************)
StagesOrdered ==
    /\ pass.kind = "construct" =>
           /\ Len(executed) = 1
           /\ executed[1].op = "copyBufferToBuffer"
           /\ heads.fill = -1
           /\ \A c \in DOMAIN heads.at :
                  threads[heads.at[c]].pc \in {"exchanged", "done"}
    /\ pass.kind = "sim" =>
           /\ Len(executed) = 2
           /\ executed[1].op = "copyBufferToBuffer"
           /\ executed[2].pipeline = "construct"
           /\ executed[2].bg = pass.bg

StagesOrderedWitness ==
    /\ pass.kind = "sim"
    /\ frames = 2
    /\ queue = <<>>
    /\ \E t \in Particles : threads[t].pc = "integrated"

(***************************************************************************)
(* C5  No step taken while a command buffer executes (a dispatch in        *)
(* flight, or between the dispatches of a tick) changes the simulation     *)
(* parameters or the interaction matrix the shaders read.                  *)
(***************************************************************************)
ParametersStable ==
    Executing => simBuffer' = simBuffer /\ matrixBuffer' = matrixBuffer

SnapshotPerFrame == [][ParametersStable]_vars

\* a UI write of other values waits in the queue while a dispatch runs
SnapshotPerFrameWitness ==
    /\ pass.kind = "sim"
    /\ \E t \in Particles : threads[t].pc = "integrated"
    /\ queue # <<>>
    /\ \/ Head(queue).type = "sim" /\ Head(queue).data # simBuffer
       \/ Head(queue).type = "matrix" /\ Head(queue).data # matrixBuffer

(***************************************************************************)
(* C6  Grid locality: once the Grid Builder has completed, the position    *)
(* of every particle listed in the chain of cell (cx, cy), clamped to the  *)
(* world, lies in [cx * r - half, (cx + 1) * r - half) on the x axis and   *)
(* in the same interval of cy on the y axis.                               *)
(***************************************************************************)
InCell(v, k, sim) ==
    LET c == clamp(v, -sim.worldSize, sim.worldSize)
    IN  k * sim.r - sim.worldSize <= c /\ c < (k + 1) * sim.r - sim.worldSize

GridLocality ==
    GridBuilt =>
        LET dim == construct_gridDim(simBuffer)
            src == particleBuffers[constructBindGroups(TickBg).particles]
        IN  \A c \in DOMAIN heads.at : \A p \in Range(Chain(c)) :
                /\ InCell(src[p].x, c % dim, simBuffer)
                /\ InCell(src[p].y, c \div dim, simBuffer)

\* a grid of several cells per axis holding a particle outside the world
\* and a particle exactly on +worldSize
GridLocalityWitness ==
    /\ GridBuilt
    /\ construct_gridDim(simBuffer) > 2
    /\ LET src == particleBuffers[constructBindGroups(TickBg).particles]
       IN  /\ \E p \in Particles : Abs(src[p].x) > simBuffer.worldSize
           /\ \E p \in Particles : src[p].y = simBuffer.worldSize

(***************************************************************************)
(* C7  No self-interaction: the traversal of an invocation reaches its     *)
(* own index, and no term of its accumulated force comes from it.          *)
(***************************************************************************)
NoSelfInteraction ==
    \A t \in Particles :
        (pass.kind = "sim" /\ threads[t].pc \in {"integrated", "done"}) =>
            /\ t \in Range(threads[t].visited)
            /\ \A k \in 1 .. Len(threads[t].contrib) : threads[t].contrib[k].j # t

NoSelfInteractionWitness ==
    \E t \in Particles :
        /\ pass.kind = "sim"
        /\ threads[t].pc = "integrated"
        /\ t \in Range(threads[t].visited)
        /\ threads[t].contrib # <<>>

(***************************************************************************)
(* C8  Cutoff: every term of an invocation's accumulated force comes from  *)
(* a neighbour whose displacement (wrapped per axis in wrap mode) has a    *)
(* squared length strictly between 0 and r * r, whatever the avoidance     *)
(* radius.                                                                 *)
(***************************************************************************)
\* the squared length of the displacement from particle i to particle j
SquaredDistance(i, j) ==
    LET half == simBuffer.worldSize
        fold(d) == IF simBuffer.border # 1 THEN d
                   ELSE IF d > half THEN d - 2 * half
                   ELSE IF d < -half THEN d + 2 * half
                   ELSE d
        dx == fold(SimSource[j].x - SimSource[i].x)
        dy == fold(SimSource[j].y - SimSource[i].y)
    IN  dx * dx + dy * dy

CutoffRespected ==
    \A t \in Particles :
        (pass.kind = "sim" /\ threads[t].pc \in {"integrated", "done"}) =>
            \A k \in 1 .. Len(threads[t].contrib) :
                LET d2 == SquaredDistance(t, threads[t].contrib[k].j)
                IN  0 < d2 /\ d2 < simBuffer.r * simBuffer.r

\* with the avoidance radius above the interaction radius, the traversal
\* met a neighbour at distance exactly r and added nothing for it
CutoffRespectedWitness ==
    \E t \in Particles : \E j \in Particles :
        /\ pass.kind = "sim"
        /\ threads[t].pc = "integrated"
        /\ simBuffer.avoidance > simBuffer.r
        /\ j # t
        /\ j \in Range(threads[t].visited)
        /\ SquaredDistance(t, j) = simBuffer.r * simBuffer.r
        /\ threads[t].contrib = <<>>
        /\ threads[t].acc = <<0, 0>>

(***************************************************************************)
(* C9  Wrap at the edge.  An invocation in wrap mode whose particle has    *)
(* x = +worldSize, zero velocity and zero accumulated force:               *)
(*   as claimed, it writes an x in [-worldSize, worldSize);                *)
(*   as amended, it writes x = +worldSize, the unchanged coordinate.       *)
(***************************************************************************)
RestsOnEdge(t) ==
    /\ pass.kind = "sim"
    /\ threads[t].pc = "done"
    /\ simBuffer.border = 1
    /\ SimSource[t].x = simBuffer.worldSize
    /\ SimSource[t].z = 0
    /\ SimSource[t].w = 0
    /\ threads[t].acc = <<0, 0>>

WrapKeepsHalfOpen ==
    \A t \in Particles :
        RestsOnEdge(t) =>
            -simBuffer.worldSize <= SimOutput[t].x /\ SimOutput[t].x < simBuffer.worldSize

WrapKeepsEdge ==
    \A t \in Particles : RestsOnEdge(t) => SimOutput[t].x = simBuffer.worldSize

WrapKeepsEdgeWitness == \E t \in Particles : RestsOnEdge(t)

(***************************************************************************)
(* C10  Reflect sign correction: in reflect mode, an invocation whose      *)
(* integrated x exceeds +worldSize with positive x velocity writes         *)
(* x = worldSize and the negated x velocity; its y position is the         *)
(* integrated one clamped to the world, its y velocity keeps its           *)
(* magnitude, and both are the integrated values when y is in the world.   *)
(***************************************************************************)
CrossesRightWall(t) ==
    /\ pass.kind = "sim"
    /\ threads[t].pc = "done"
    /\ simBuffer.border = 0
    /\ threads[t].pos[1] > simBuffer.worldSize
    /\ threads[t].vel[1] > 0

ReflectSignCorrection ==
    \A t \in Particles :
        CrossesRightWall(t) =>
            LET half == simBuffer.worldSize
                out == SimOutput[t]
            IN  /\ out.x = half
                /\ out.z = -threads[t].vel[1]
                /\ out.z < 0
                /\ out.y = clamp(threads[t].pos[2], -half, half)
                /\ Abs(out.w) = Abs(threads[t].vel[2])
                /\ Abs(threads[t].pos[2]) <= half =>
                       out.y = threads[t].pos[2] /\ out.w = threads[t].vel[2]

ReflectSignCorrectionWitness ==
    \E t \in Particles : CrossesRightWall(t) /\ threads[t].vel[2] # 0

(***************************************************************************)
(* C11  Boundary values of the force curve: for every beta in (0, 1) and   *)
(* every coeff in [-1, 1], forceCurve returns -1 at dist = 0, 0 at         *)
(* dist = beta, 0 at dist = 1 and coeff at dist = (1 + beta) / 2.          *)
(***************************************************************************)
Returned(fn) == call.fn = fn /\ call.pc = "returned"

ForceCurveBoundaryValues ==
    Returned("forceCurve") =>
        LET dist == call.args[1]
            beta == call.args[2]
            coeff == call.args[3]
        IN  /\ dist = 0 => call.result = -Scale
            /\ dist = beta => call.result = 0
            /\ dist = Scale => call.result = 0
            /\ 2 * dist = Scale + beta => call.result = coeff

\* the peak, with a beta other than the default and a coefficient that is
\* neither 0 nor +-1
ForceCurveBoundaryValuesWitness ==
    /\ Returned("forceCurve")
    /\ 2 * call.args[1] = Scale + call.args[2]
    /\ call.args[2] = 72
    /\ call.args[3] = 37
    /\ call.result = 37

(***************************************************************************)
(* C12  Zero force at the repulsion / attraction boundary.  With r = 15,   *)
(* beta = 0.3, force = 1, friction = 0, delta = 0.02, avoidance = 0,       *)
(* worldSize = 6, reflect border, no vortex and the identity matrix, an    *)
(* invocation whose every neighbour nearer than r has its own colour and   *)
(* is at distance exactly beta * r accumulates zero force, and             *)
(*   as claimed, writes the velocity its particle had before the tick;     *)
(*   as amended, integrates to that velocity and writes it on every axis   *)
(*   on which the integrated position lies within the world (on an axis    *)
(*   on which it left the world the reflection writes -|v| or +|v|).       *)
(***************************************************************************)
BoundaryScenario ==
    /\ simBuffer = setSim([defaultOptions EXCEPT !.friction = 0, !.avoidance = 0,
                                                 !.border = FALSE])
    /\ matrixBuffer = [k \in 0 .. (COLOUR_COUNT * COLOUR_COUNT - 1) |->
                          IF k \div COLOUR_COUNT = k % COLOUR_COUNT THEN Scale ELSE 0]

\* the particles other than t nearer than r to it
Near(t) ==
    {j \in Particles \ {t} : SquaredDistance(t, j) < simBuffer.r * simBuffer.r}

AtBoundaryDistance(t) ==
    /\ pass.kind = "sim"
    /\ threads[t].pc = "done"
    /\ BoundaryScenario
    /\ \A j \in Near(t) :
           /\ colourBuffer[j] = colourBuffer[t]
           /\ SquaredDistance(t, j) =
                  FMul(simBuffer.beta, simBuffer.r) * FMul(simBuffer.beta, simBuffer.r)

InWorld(v) == -simBuffer.worldSize <= v /\ v <= simBuffer.worldSize

ZeroForceKeepsVelocity ==
    \A t \in Particles :
        AtBoundaryDistance(t) =>
            /\ threads[t].acc = <<0, 0>>
            /\ SimOutput[t].z = SimSource[t].z
            /\ SimOutput[t].w = SimSource[t].w

ZeroForceKeepsVelocityInWorld ==
    \A t \in Particles :
        AtBoundaryDistance(t) =>
            /\ threads[t].acc = <<0, 0>>
            /\ threads[t].vel = <<SimSource[t].z, SimSource[t].w>>
            /\ InWorld(threads[t].pos[1]) => SimOutput[t].z = SimSource[t].z
            /\ InWorld(threads[t].pos[2]) => SimOutput[t].w = SimSource[t].w
            /\ ~InWorld(threads[t].pos[1]) => Abs(SimOutput[t].z) = Abs(SimSource[t].z)
            /\ ~InWorld(threads[t].pos[2]) => Abs(SimOutput[t].w) = Abs(SimSource[t].w)

\* a moving particle with a neighbour at beta * r that stays in the world
ZeroForceKeepsVelocityInWorldWitness ==
    \E t \in Particles :
        /\ AtBoundaryDistance(t)
        /\ Near(t) # {}
        /\ SimSource[t].z # 0
        /\ SimSource[t].w # 0
        /\ InWorld(threads[t].pos[1])
        /\ InWorld(threads[t].pos[2])
        /\ SimOutput[t].x # SimSource[t].x

(***************************************************************************)
(* C13  Row and column of the coefficient.  Every term an invocation i     *)
(* adds for a neighbour j is (curve + avoidance boost) along the unit      *)
(* vector from i to j, the curve being forceCurve(dist / r, beta,          *)
(* matrix[colour_i * colours + colour_j]); with r = 15, beta = 0.3,        *)
(* coefficient -1 and dist / r = 0.5 the curve is -4/7, to within one      *)
(* step of the fixed-point grid.                                           *)
(***************************************************************************)
\* the displacement from particle i to particle j as the running dispatch sees it
DiffTo(i, j) == Displacement(<<SimSource[i].x, SimSource[i].y>>, SimSource[j], simBuffer)

NormD(i, j) == FDiv(FSqrt(dot(DiffTo(i, j), DiffTo(i, j))), simBuffer.r)

UnitTo(i, j) ==
    LET dist == FSqrt(dot(DiffTo(i, j), DiffTo(i, j)))
    IN  <<FDiv(DiffTo(i, j)[1], dist), FDiv(DiffTo(i, j)[2], dist)>>

RowColumnCoeff(i, j) ==
    matrixBuffer[colourBuffer[i] * simBuffer.colours + colourBuffer[j]]

AvoidanceBoost(i, j) ==
    LET dist == FSqrt(dot(DiffTo(i, j), DiffTo(i, j)))
    IN  IF dist < simBuffer.avoidance
        THEN -TDiv(FDiv(simBuffer.avoidance, dist) - Scale, 2)
        ELSE 0

MidRangeCase(i, j) ==
    /\ simBuffer.r = 15 * Scale
    /\ simBuffer.beta = 30
    /\ RowColumnCoeff(i, j) = -Scale
    /\ 2 * NormD(i, j) = Scale

CurveByRowColumn ==
    \A t \in Particles :
        (pass.kind = "sim" /\ threads[t].pc \in {"integrated", "done"}) =>
            \A k \in 1 .. Len(threads[t].contrib) :
                LET j == threads[t].contrib[k].j
                    f == forceCurve(NormD(t, j), simBuffer.beta, RowColumnCoeff(t, j))
                    a == AvoidanceBoost(t, j)
                IN  /\ threads[t].contrib[k].term =
                           <<FMul(UnitTo(t, j)[1], f + a), FMul(UnitTo(t, j)[2], f + a)>>
                    /\ MidRangeCase(t, j) => Abs(7 * f + 4 * Scale) < 7

\* the mid-range case between two colours whose two matrix entries differ,
\* without avoidance boost: the term is the curve along the x axis
CurveByRowColumnWitness ==
    \E t \in Particles :
        /\ pass.kind = "sim"
        /\ threads[t].pc = "integrated"
        /\ Len(threads[t].contrib) = 1
        /\ LET j == threads[t].contrib[1].j
           IN  /\ MidRangeCase(t, j)
               /\ RowColumnCoeff(j, t) # RowColumnCoeff(t, j)
               /\ simBuffer.avoidance = 0
               /\ UnitTo(t, j) = <<Scale, 0>>
               /\ Abs(7 * threads[t].contrib[1].term[1] + 4 * Scale) < 7

(***************************************************************************)
(* C14  Reverse insertion order.  While the Grid Builder runs and once it  *)
(* has completed, the head of every cell is the particle whose exchange    *)
(* on it was last, and the next of every particle that has stored is the   *)
(* particle whose exchange on the same head came immediately before its    *)
(* own, the sentinel -1 exactly for the first; once the dispatch has       *)
(* completed, every chain is the reverse of the exchange order.            *)
(***************************************************************************)
Reverse(s) == [k \in 1 .. Len(s) |-> s[Len(s) + 1 - k]]

\* the Grid Builder dispatch has just completed, its invocations are at rest
GridJustBuilt ==
    /\ pass.kind = "none"
    /\ executed # <<>>
    /\ executed[Len(executed)].pipeline = "construct"

ReverseExchangeOrder ==
    (pass.kind = "construct" \/ GridJustBuilt) =>
        /\ DOMAIN log.exchanges = DOMAIN heads.at
        /\ \A c \in DOMAIN heads.at :
               LET ord == ExchangesOn(log, c)
               IN  /\ heads.at[c] = ord[Len(ord)]
                   /\ \A k \in 1 .. Len(ord) :
                          threads[ord[k]].pc = "done" =>
                              /\ linked[ord[k]] = IF k = 1 THEN -1 ELSE ord[k - 1]
                              /\ linked[ord[k]] = -1 <=> k = 1
                   /\ GridJustBuilt => Chain(c) = Reverse(ord)

\* in the second tick a particle exchanged and stored between the exchange
\* and the store of the particle before it on the same head, whose next
\* still holds the link of the first tick
ReverseExchangeOrderWitness ==
    /\ pass.kind = "construct"
    /\ frames = 2
    /\ \E c \in DOMAIN heads.at :
           LET ord == ExchangesOn(log, c)
           IN  /\ Len(ord) = 2
               /\ threads[ord[1]].pc = "exchanged"
               /\ threads[ord[2]].pc = "done"
               /\ linked[ord[2]] = ord[1]
               /\ linked[ord[1]] = ord[2]

(***************************************************************************)
(* C15  Writes of the Grid Builder.  Within one dispatch next slot k is    *)
(* written by invocation k only, once, by the time the dispatch            *)
(* completes; every step of the dispatch that changes the next array is    *)
(* the store of the invocation owning the changed slot; every step that    *)
(* changes the head table is the atomic exchange of one invocation, which  *)
(* receives the value it replaces; no other buffer changes.                *)
(***************************************************************************)
OwnSlotWrittenOnce ==
    (pass.kind = "construct" \/ GridJustBuilt) =>
        \A k \in Particles :
            /\ log.stores[k] = IF threads[k].pc = "done" THEN <<k>> ELSE <<>>
            /\ GridJustBuilt => log.stores[k] = <<k>>

GridBuilderStep ==
    (pass.kind = "construct") =>
        /\ \A k \in Particles :
               linked'[k] # linked[k] =>
                   /\ threads[k].pc = "exchanged"
                   /\ threads'[k].pc = "done"
                   /\ heads' = heads
        /\ heads' # heads =>
               \E t \in Particles : \E c \in DOMAIN heads'.at :
                   /\ threads[t].pc = "start"
                   /\ threads'[t].pc = "exchanged"
                   /\ threads'[t].prev = HeadAt(heads, c)
                   /\ heads' = [heads EXCEPT !.at = (c :> t) @@ heads.at]
                   /\ \A u \in Threads \ {t} : threads'[u] = threads[u]
                   /\ linked' = linked
        /\ particleBuffers' = particleBuffers
        /\ simBuffer' = simBuffer
        /\ matrixBuffer' = matrixBuffer
        /\ colourBuffer' = colourBuffer

GridBuilderWrites == []OwnSlotWrittenOnce /\ [][GridBuilderStep]_vars

\* a head exchanged by two invocations, each of which stored its own next
GridBuilderWritesWitness ==
    /\ GridJustBuilt
    /\ \E c \in DOMAIN heads.at : Len(ExchangesOn(log, c)) = 2
    /\ \A k \in Particles : log.stores[k] = <<k>>
    /\ \E k \in Particles : linked[k] # -1

(***************************************************************************)
(* C16  Cells in range.  For every position (inside, on the edge of,       *)
(* outside the world), radius > 0 and world half size > 0 the Grid         *)
(* Builder's cx and cy lie in [0, gridDim), gridDim = ceil(2 * half / r)   *)
(* + 1, and its flat index in [0, gridDim^2) names the cell (cx, cy); the  *)
(* head entries the Force Integrator reads are those of the cells          *)
(* (cx + dx, cy + dy), dx, dy in -1 .. 1, whose two coordinates lie in     *)
(* [0, gridDim), and no other.                                             *)
(***************************************************************************)
\* ceil(2 * half / r) + 1, half and r on the same grid
CeilQuotientPlusOne(half, r) ==
    (CHOOSE n \in 0 .. (2 * half) : n * r >= 2 * half /\ (n - 1) * r < 2 * half) + 1

CellsInRange ==
    Returned("cell") =>
        LET res == call.result
            dim == CeilQuotientPlusOne(call.args[4], call.args[3])
        IN  /\ res.dim = dim
            /\ res.simDim = dim
            /\ 0 <= res.cx /\ res.cx < dim
            /\ 0 <= res.cy /\ res.cy < dim
            /\ 0 <= res.cell /\ res.cell < dim * dim
            /\ res.cell % dim = res.cx
            /\ res.cell \div dim = res.cy
            /\ res.simCx = res.cx
            /\ res.simCy = res.cy
            /\ \A k \in 1 .. Len(NeighbourOffsets) :
                   LET nx == res.cx + NeighbourOffsets[k][1]
                       ny == res.cy + NeighbourOffsets[k][2]
                   IN  IF 0 <= nx /\ nx < dim /\ 0 <= ny /\ ny < dim
                       THEN res.reads[k] = ny * dim + nx
                       ELSE res.reads[k] = -1

\* a position outside the world on one axis and on the +edge on the other, in
\* the last column of a grid of several cells: offsets are skipped on both sides
CellsInRangeWitness ==
    /\ Returned("cell")
    /\ call.args[1] > call.args[4]
    /\ call.args[2] = -3 * call.args[4]
    /\ call.result.dim > 3
    /\ call.result.cx = call.result.dim - 1
    /\ call.result.cy = 0
    /\ \E k \in 1 .. Len(NeighbourOffsets) : call.result.reads[k] = -1
    /\ \E k \in 1 .. Len(NeighbourOffsets) : call.result.reads[k] > 0

(***************************************************************************)
(* C17  Head table capacity.  With the radius anywhere in the slider's     *)
(* range [1, 50] and worldSize 6, the head entry the Grid Builder          *)
(* exchanges and every head entry the Force Integrator reads have an       *)
(* index below maxCells, the number of entries allocated.                  *)
(***************************************************************************)
SliderRadius(r) == Scale <= r /\ r <= 50 * Scale

HeadIndexWithinTable ==
    (Returned("cell") /\ SliderRadius(call.args[3]) /\ call.args[4] = 6 * Scale) =>
        /\ 0 <= call.result.cell
        /\ call.result.cell < maxCells
        /\ \A k \in 1 .. Len(NeighbourOffsets) : call.result.reads[k] < maxCells

\* the smallest radius of the slider and a particle in the last cell of the
\* grid: the largest index of all, 13 * 13 - 1
HeadIndexWithinTableWitness ==
    /\ Returned("cell")
    /\ call.args[3] = Scale
    /\ call.args[4] = 6 * Scale
    /\ call.result.dim = 13
    /\ call.result.cell = call.result.dim * call.result.dim - 1
    /\ \E k \in 1 .. Len(NeighbourOffsets) : call.result.reads[k] = call.result.cell

(***************************************************************************)
(* C18  Wrap is a reduction modulo the world width: in wrap mode each      *)
(* written coordinate differs from the integrated one by a multiple of     *)
(* 2 * worldSize and lies within [-worldSize, worldSize], however far      *)
(* outside the world the integrated position is.                           *)
(***************************************************************************)
WrapReducesModuloWidth ==
    \A t \in Particles :
        (pass.kind = "sim" /\ threads[t].pc = "done" /\ simBuffer.border = 1) =>
            /\ (SimOutput[t].x - threads[t].pos[1]) % (2 * simBuffer.worldSize) = 0
            /\ (SimOutput[t].y - threads[t].pos[2]) % (2 * simBuffer.worldSize) = 0
            /\ InWorld(SimOutput[t].x)
            /\ InWorld(SimOutput[t].y)

(***************************************************************************)
(* C19  Reflect keeps particles in the world: in reflect mode every        *)
(* record written has both coordinates within [-worldSize, worldSize]; a   *)
(* coordinate integrated beyond a wall is written on that wall with a      *)
(* velocity component of the same magnitude that does not point out of     *)
(* the world, also when the integrated component already pointed inward;   *)
(* a coordinate integrated within the world is written as integrated.      *)
(***************************************************************************)
ReflectedAxis(p, v, outP, outV) ==
    LET half == simBuffer.worldSize
    IN  /\ InWorld(outP)
        /\ p > half => outP = half /\ outV <= 0 /\ Abs(outV) = Abs(v)
        /\ p < -half => outP = -half /\ outV >= 0 /\ Abs(outV) = Abs(v)
        /\ InWorld(p) => outP = p /\ outV = v

ReflectKeepsInWorld ==
    \A t \in Particles :
        (pass.kind = "sim" /\ threads[t].pc = "done" /\ simBuffer.border = 0) =>
            /\ ReflectedAxis(threads[t].pos[1], threads[t].vel[1],
                             SimOutput[t].x, SimOutput[t].z)
            /\ ReflectedAxis(threads[t].pos[2], threads[t].vel[2],
                             SimOutput[t].y, SimOutput[t].w)

\* one particle beyond the right wall moving inward, and one beyond the
\* lower wall
ReflectKeepsInWorldWitness ==
    /\ pass.kind = "sim"
    /\ simBuffer.border = 0
    /\ \E t \in Particles :
           /\ threads[t].pc = "done"
           /\ threads[t].pos[1] > simBuffer.worldSize
           /\ threads[t].vel[1] < 0
           /\ SimOutput[t].z = threads[t].vel[1]
    /\ \E t \in Particles :
           /\ threads[t].pc = "done"
           /\ threads[t].pos[2] < -simBuffer.worldSize
           /\ SimOutput[t].y = -simBuffer.worldSize

(***************************************************************************)
(* C20  Neighbourhood coverage: in reflect mode with every particle in     *)
(* the world, the walk of an invocation meets every other particle at a    *)
(* distance strictly between 0 and r exactly once, and adds exactly one    *)
(* term for it.                                                            *)
(***************************************************************************)
Occurrences(s, v) == Cardinality({k \in 1 .. Len(s) : s[k] = v})

TermsFrom(t, j) ==
    Cardinality({k \in 1 .. Len(threads[t].contrib) : threads[t].contrib[k].j = j})

AllInWorld == \A p \in Particles : InWorld(SimSource[p].x) /\ InWorld(SimSource[p].y)

InRange(t, j) ==
    /\ j # t
    /\ 0 < SquaredDistance(t, j)
    /\ SquaredDistance(t, j) < simBuffer.r * simBuffer.r

NeighboursMetOnce ==
    (pass.kind = "sim" /\ simBuffer.border = 0 /\ AllInWorld) =>
        \A t \in Particles :
            threads[t].pc \in {"integrated", "done"} =>
                \A j \in Particles :
                    /\ Occurrences(threads[t].visited, j) <= 1
                    /\ InRange(t, j) =>
                           /\ Occurrences(threads[t].visited, j) = 1
                           /\ TermsFrom(t, j) = 1

\* a particle in the last column of a grid of four cells per axis and a
\* neighbour in range in the diagonally adjacent cell
NeighboursMetOnceWitness ==
    /\ pass.kind = "sim"
    /\ simBuffer.border = 0
    /\ AllInWorld
    /\ sim_gridDim(simBuffer) = 4
    /\ \E t \in Particles : \E j \in Particles :
           /\ threads[t].pc = "integrated"
           /\ InRange(t, j)
           /\ sim_cellCoord(SimSource[t].x, simBuffer) = 3
           /\ sim_cellCoord(SimSource[j].x, simBuffer) = 2
           /\ sim_cellCoord(SimSource[t].y, simBuffer)
                  # sim_cellCoord(SimSource[j].y, simBuffer)
           /\ TermsFrom(t, j) = 1

(***************************************************************************)
(* C21  Wrap-around neighbours: in wrap mode, on a grid of more than       *)
(* three cells per axis, every other particle whose displacement, wrapped  *)
(* per axis to the shortest path, has a length strictly between 0 and r    *)
(* adds a term to the invocation's force, also when the two are close      *)
(* only across a world edge.                                               *)
(***************************************************************************)
WrapNeighboursContribute ==
    (pass.kind = "sim" /\ simBuffer.border = 1 /\ sim_gridDim(simBuffer) > 3) =>
        \A t \in Particles :
            threads[t].pc \in {"integrated", "done"} =>
                \A j \in Particles : InRange(t, j) => TermsFrom(t, j) >= 1

(***************************************************************************)
(* C22  Traversals terminate.  Once the Grid Builder dispatch of a tick    *)
(* has completed, in the first tick (over a zero-filled next array) and    *)
(* in the next (over the links of the tick before), the chain of every     *)
(* cell lists particle indices without repetition and ends at the          *)
(* sentinel -1 within PARTICLE_COUNT steps, and the walk of every Force    *)
(* Integrator invocation meets no particle twice.                          *)
(***************************************************************************)
NoRepetition(s) == \A a \in 1 .. Len(s) : \A b \in 1 .. Len(s) : s[a] = s[b] => a = b

EndsAtSentinel(c) ==
    LET w == Chain(c)
    IN  /\ Len(w) <= PARTICLE_COUNT
        /\ Range(w) \subseteq Particles
        /\ NoRepetition(w)
        /\ w # <<>> => linked[w[Len(w)]] = -1

TraversalsTerminate ==
    /\ GridBuilt =>
           /\ heads.fill = -1
           /\ \A c \in DOMAIN heads.at : EndsAtSentinel(c)
    /\ pass.kind = "sim" =>
           \A t \in Particles :
               threads[t].pc \in {"integrated", "done"} =>
                   /\ NoRepetition(threads[t].visited)
                   /\ Len(threads[t].visited) <= PARTICLE_COUNT

\* the second tick: an invocation has walked a chain of two particles, whose
\* first link is the one this tick's Grid Builder stored
TraversalsTerminateWitness ==
    /\ pass.kind = "sim"
    /\ frames = 2
    /\ queue = <<>>
    /\ \E t \in Particles :
           /\ threads[t].pc = "integrated"
           /\ Len(threads[t].visited) = 2
           /\ linked[threads[t].visited[1]] = threads[t].visited[2]
           /\ linked[threads[t].visited[2]] = -1

(***************************************************************************)
(* C23  One cell mapping in both kernels.  For every particle of a tick,   *)
(* the grid dimension and the own-cell coordinates the Force Integrator    *)
(* computes from the source record and the uniform are those the Grid      *)
(* Builder computes from them; the Grid Builder's exchange for particle t  *)
(* is on that cell, and during the Force Integrator dispatch the chain of  *)
(* the centre cell of t's neighbourhood lists t, so t's walk meets t.      *)
(***************************************************************************)
\* the centre cell of particle t's neighbourhood, as sim.wgsl computes it from src
CentreCell(t, src) ==
    sim_cellIndex(sim_cellCoord(src[t].x, simBuffer), sim_cellCoord(src[t].y, simBuffer),
                  sim_gridDim(simBuffer))

SameCellMath(t, src) ==
    /\ sim_gridDim(simBuffer) = construct_gridDim(simBuffer)
    /\ sim_cellCoord(src[t].x, simBuffer) = construct_cellCoord(src[t].x, simBuffer)
    /\ sim_cellCoord(src[t].y, simBuffer) = construct_cellCoord(src[t].y, simBuffer)
    /\ CentreCell(t, src) = construct_cell(src[t], simBuffer)

CentreCellHoldsParticle ==
    /\ pass.kind = "construct" =>
           LET src == particleBuffers[constructBindGroups(pass.bg).particles]
           IN  \A t \in Particles :
                   /\ SameCellMath(t, src)
                   /\ \A c \in DOMAIN log.exchanges :
                          t \in Range(log.exchanges[c]) => c = CentreCell(t, src)
    /\ pass.kind = "sim" =>
           \A t \in Particles :
               /\ SameCellMath(t, SimSource)
               /\ t \in Range(Chain(CentreCell(t, SimSource)))
               /\ threads[t].pc \in {"integrated", "done"} =>
                      t \in Range(threads[t].visited)

\* a grid of several cells per axis, a particle beyond two edges of the world
\* put into the corner cell (dim - 1, 0), and its walk has met it there
CentreCellHoldsParticleWitness ==
    /\ pass.kind = "sim"
    /\ sim_gridDim(simBuffer) > 3
    /\ \E t \in Particles :
           /\ threads[t].pc = "integrated"
           /\ SimSource[t].y < -simBuffer.worldSize
           /\ SimSource[t].x > simBuffer.worldSize
           /\ CentreCell(t, SimSource) = sim_gridDim(simBuffer) - 1
           /\ t \in Range(threads[t].visited)

(***************************************************************************)
(* C24  Ping-pong.  The ping-pong index is 0 or 1 and flips with every     *)
(* tick.  Tick n (n = 1, 2, ...) binds particle buffer (n - 1) % 2 to the  *)
(* Grid Builder and to the Force Integrator for reading and buffer n % 2   *)
(* to the Force Integrator for writing, so a tick reads the buffer the     *)
(* tick before it wrote and writes the other one; the two are never the    *)
(* same buffer, and a particle buffer changes only by a Force Integrator   *)
(* write to the output buffer of its tick.                                 *)
(***************************************************************************)
\* the submits not yet begun
Waiting == {k \in 1 .. Len(queue) : queue[k].type = "submit"}

\* the number of the tick in execution: frames counts the ticks recorded
TickInExecution == frames - Cardinality(Waiting)

PingPongBindings ==
    /\ step \in {0, 1}
    /\ step = frames % 2
    /\ pass.kind \in {"construct", "sim"} =>
           /\ constructBindGroups(pass.bg).particles = (TickInExecution - 1) % 2
           /\ simBindGroups(pass.bg).particles = (TickInExecution - 1) % 2
           /\ simBindGroups(pass.bg).output = TickInExecution % 2
           /\ simBindGroups(pass.bg).output # simBindGroups(pass.bg).particles
           /\ simBindGroups(pass.bg).output # constructBindGroups(pass.bg).particles

PingPongStep ==
    /\ step' # step => step' = 1 - step /\ frames' = frames + 1
    /\ frames' # frames => step' = 1 - step
    /\ particleBuffers' # particleBuffers =>
           /\ pass.kind = "sim"
           /\ pass' = pass
           /\ \A b \in DOMAIN particleBuffers :
                  b # TickInExecution % 2 => particleBuffers'[b] = particleBuffers[b]

PingPongAlternates == []PingPongBindings /\ [][PingPongStep]_vars

\* the second tick: its Force Integrator reads buffer 1, which the first tick
\* filled, and has written a record into buffer 0
PingPongAlternatesWitness ==
    /\ pass.kind = "sim"
    /\ TickInExecution = 2
    /\ step = 0
    /\ simBindGroups(pass.bg).particles = 1
    /\ simBindGroups(pass.bg).output = 0
    /\ \E t \in Particles :
           /\ threads[t].pc = "done"
           /\ particleBuffers[0][t] # particleBuffers[1][t]

(***************************************************************************)
(* C25  Interleaving does not show.  With the sums of the model, which do  *)
(* not depend on the order of their terms, every record a tick's Force     *)
(* Integrator writes is determined by the source buffer, the colours, the  *)
(* matrix and the uniform alone: it is the record computed from the        *)
(* particles of the neighbourhood's cells taken in index order, whatever   *)
(* order the interleaving of the Grid Builder gave the chains and whatever *)
(* order the Force Integrator invocations ran in.                          *)
(***************************************************************************)
RECURSIVE Ascending(_)
Ascending(S) ==
    IF S = {} THEN <<>>
    ELSE LET m == CHOOSE a \in S : \A b \in S : a <= b
         IN  <<m>> \o Ascending(S \ {m})

\* the particles in the cells of t's neighbourhood, by the source records alone
InNeighbourhood(t) ==
    LET cells == {NeighbourCell(sim_cellCoord(SimSource[t].x, simBuffer),
                                sim_cellCoord(SimSource[t].y, simBuffer),
                                sim_gridDim(simBuffer), k) :
                      k \in 1 .. Len(NeighbourOffsets)}
    IN  {j \in Particles : construct_cell(SimSource[j], simBuffer) \in cells}

\* the record for particle t as a function of the dispatch's inputs
RecordFromInputs(t) ==
    LET pos == <<SimSource[t].x, SimSource[t].y>>
        vel == <<SimSource[t].z, SimSource[t].w>>
        terms == Contributions(t, pos, Ascending(InNeighbourhood(t)), SimSource,
                               colourBuffer, simBuffer, matrixBuffer)
        res == Integrate(SumTerms(terms), pos, vel, simBuffer)
        bx == Border(res[2][1], res[3][1], simBuffer)
        by == Border(res[2][2], res[3][2], simBuffer)
    IN  [x |-> bx[1], y |-> by[1], z |-> bx[2], w |-> by[2]]

OutputFromInputsAlone ==
    pass.kind = "sim" =>
        \A t \in Particles :
            threads[t].pc = "done" => SimOutput[t] = RecordFromInputs(t)

\* an invocation that walked its neighbours in another order than index order,
\* added a force term on the way, and wrote the record
OutputFromInputsAloneWitness ==
    /\ pass.kind = "sim"
    /\ \E t \in Particles :
           /\ threads[t].pc = "done"
           /\ Len(threads[t].visited) >= 2
           /\ threads[t].visited # Ascending(InNeighbourhood(t))
           /\ threads[t].contrib # <<>>
           /\ threads[t].acc # <<0, 0>>
           /\ SimOutput[t] = RecordFromInputs(t)

(***************************************************************************)
(* C26  One invocation per particle.  The workgroups of a dispatch cover   *)
(* every particle index.  In the Grid Builder dispatch each particle index *)
(* is exchanged into one head once and its next slot is written once, by   *)
(* the invocation of that index; in the Force Integrator dispatch each     *)
(* output slot is written once, by the invocation of that index; when a    *)
(* dispatch has completed every slot has been written.  An invocation      *)
(* whose index is PARTICLE_COUNT or more returns at once: it holds nothing *)
(* read from a buffer, and its step changes no buffer.                     *)
(***************************************************************************)
SimJustDone ==
    /\ pass.kind = "none"
    /\ executed # <<>>
    /\ executed[Len(executed)].pipeline = "sim"

\* the exchanges that put particle k into a head, over all cells
ExchangesOf(k) ==
    {ce \in UNION {{<<c, e>> : e \in 1 .. Len(log.exchanges[c])} :
                      c \in DOMAIN log.exchanges} :
        log.exchanges[ce[1]][ce[2]] = k}

Surplus == Threads \ Particles

EachIndexOnce ==
    /\ DOMAIN threads = Threads
    /\ pass.kind # "none" => Particles \subseteq Threads
    /\ (pass.kind = "construct" \/ GridJustBuilt) =>
           \A k \in Particles :
               /\ Cardinality(ExchangesOf(k)) =
                      (IF threads[k].pc \in {"exchanged", "done"} THEN 1 ELSE 0)
               /\ log.stores[k] = IF threads[k].pc = "done" THEN <<k>> ELSE <<>>
               /\ log.outputs[k] = <<>>
               /\ GridJustBuilt =>
                      Cardinality(ExchangesOf(k)) = 1 /\ log.stores[k] = <<k>>
    /\ (pass.kind = "sim" \/ SimJustDone) =>
           \A k \in Particles :
               /\ log.outputs[k] = IF threads[k].pc = "done" THEN <<k>> ELSE <<>>
               /\ log.stores[k] = <<>>
               /\ ExchangesOf(k) = {}
               /\ SimJustDone => log.outputs[k] = <<k>>
    /\ \A t \in Surplus :
           /\ threads[t].pc \in {"idle", "start", "done"}
           /\ threads[t] = [IdleThread EXCEPT !.pc = threads[t].pc]

SurplusStep ==
    \A t \in Surplus :
        (threads'[t] # threads[t] /\ pass' = pass) =>
            /\ threads[t].pc = "start"
            /\ threads'[t].pc = "done"
            /\ \A u \in Threads \ {t} : threads'[u] = threads[u]
            /\ UNCHANGED <<particleBuffers, heads, linked, simBuffer, matrixBuffer,
                           colourBuffer, log>>

OneInvocationPerParticle == []EachIndexOnce /\ [][SurplusStep]_vars

\* the second tick's Force Integrator dispatch has completed: every output slot
\* written once by its own invocation, the surplus invocation returned
OneInvocationPerParticleWitness ==
    /\ SimJustDone
    /\ frames = 2
    /\ queue = <<>>
    /\ Surplus # {}
    /\ \A t \in Surplus : threads[t].pc = "done"
    /\ \A k \in Particles : log.outputs[k] = <<k>> /\ threads[k].visited # <<>>

(***************************************************************************)
(* C27  Own cell in the Force Integrator, as stated: the coordinate is     *)
(* floor((v + half) / r) of the raw position, and for a position outside   *)
(* the world it falls outside [0, gridDim).                                *)
(***************************************************************************)
OutsideWorld(v, half) == v < -half \/ v > half

OwnCellUnclamped ==
    Returned("cell") =>
        LET x == call.args[1]
            y == call.args[2]
            r == call.args[3]
            half == call.args[4]
            res == call.result
        IN  /\ res.simCx = (x + half) \div r
            /\ res.simCy = (y + half) \div r
            /\ OutsideWorld(x, half) => ~(0 <= res.simCx /\ res.simCx < res.simDim)
            /\ OutsideWorld(y, half) => ~(0 <= res.simCy /\ res.simCy < res.simDim)

(***************************************************************************)
(* C27, amended: the Force Integrator clamps the position to the world     *)
(* before the cell math, floor((clamp(v, -half, half) + half) / r).  The   *)
(* own-cell coordinate lies in [0, gridDim) for every position; a position *)
(* beyond the - edge has coordinate 0, one beyond the + edge the           *)
(* coordinate of the + edge, floor(2 * half / r).  The centre cell is      *)
(* always read; the offsets skipped are those of an edge cell that lead    *)
(* beyond the grid.                                                        *)
(***************************************************************************)
ClampedCoord(v, r, half) ==
    (IF v < -half THEN 0 ELSE IF v > half THEN 2 * half ELSE v + half) \div r

CentreOffset == CHOOSE k \in 1 .. Len(NeighbourOffsets) : NeighbourOffsets[k] = <<0, 0>>

OwnCellClamped ==
    Returned("cell") =>
        LET x == call.args[1]
            y == call.args[2]
            r == call.args[3]
            half == call.args[4]
            res == call.result
        IN  /\ res.simCx = ClampedCoord(x, r, half)
            /\ res.simCy = ClampedCoord(y, r, half)
            /\ 0 <= res.simCx /\ res.simCx < res.simDim
            /\ 0 <= res.simCy /\ res.simCy < res.simDim
            /\ res.reads[CentreOffset] = res.simCy * res.simDim + res.simCx
            /\ \A k \in 1 .. Len(NeighbourOffsets) :
                   res.reads[k] = -1 <=>
                       \/ res.simCx + NeighbourOffsets[k][1] \in {-1, res.simDim}
                       \/ res.simCy + NeighbourOffsets[k][2] \in {-1, res.simDim}

\* a position beyond the + edge in x and beyond the - edge in y, cells smaller
\* than the world: the raw coordinates would be outside the grid, the own cell
\* is in the row 0 of the grid, and the three offsets with dy = -1 are skipped
OwnCellClampedWitness ==
    /\ Returned("cell")
    /\ call.args[1] > call.args[4]
    /\ call.args[2] < -call.args[4]
    /\ (call.args[1] + call.args[4]) \div call.args[3] >= call.result.simDim
    /\ (call.args[2] + call.args[4]) \div call.args[3] < 0
    /\ call.result.simDim > 3
    /\ call.result.simCx = (2 * call.args[4]) \div call.args[3]
    /\ call.result.simCy = 0
    /\ call.result.reads[CentreOffset] >= 0
    /\ \A k \in 1 .. Len(NeighbourOffsets) :
           NeighbourOffsets[k][2] = -1 => call.result.reads[k] = -1

====
